---- MODULE Spec2Model ----
(***************************************************************************)
(* Reliable delivery pipeline of agents-whatsapp-rust: idempotent          *)
(* ingestion (agent-gateway/src/handlers.rs, handle_event), the retrying   *)
(* publisher (publish_agent_event_with_retry) and the dead letter queue    *)
(* (shared/src/dlq.rs, DeadLetterQueue) with its expiry, its read calls    *)
(* and the bootstrap loop init_dlq_collection.                             *)
(*                                                                         *)
(* Time is the wall clock in milliseconds (Utc::now()).  A task reads the  *)
(* clock once per synchronous segment; the clock advances only between     *)
(* steps (action Tick).  Timestamps are instants that the datastore's      *)
(* filters compare by value.  A datastore call that returns an error is an *)
(* outcome of the step that makes the call.                                *)
(***************************************************************************)
EXTENDS Integers, FiniteSets, Sequences, TLC

\* ------------------------------------------------------------------------
\* Bounds of the model
\* ------------------------------------------------------------------------
MaxEntries == 2          \* dead letter documents ever inserted
MaxTicks == 1            \* clock advances in one behaviour
NumSweepers == 2         \* concurrent retry_pending_messages invocations
MaxCalls == 2            \* handle_event invocations in one behaviour
NumKeys == 1             \* distinct idempotency keys carried by events
MaxBackoffArg == 13      \* calculate_backoff is applied to the u32 values whose low
                         \* 31 bits are within MaxBackoffArg of 0 or of 2^31 - 1

\* ------------------------------------------------------------------------
\* Program constants
\* ------------------------------------------------------------------------
max_retries == 5                       \* DeadLetterQueue::new
retry_backoff_base_ms == 100           \* DeadLetterQueue::new
retry_backoff_multiplier == 2          \* DeadLetterQueue::new (2.0)
dlq_ttl_days == 7                      \* DeadLetterQueue::new
BackoffCapMs == 300000                 \* calculate_backoff: delay_ms.min(300_000.0)
DayMs == 86400000                      \* chrono::Duration::days(1) in milliseconds
pub_max_retries == 5                   \* publish_agent_event_with_retry: max_retries
pub_initial_backoff_ms == 100          \* publish_agent_event_with_retry: backoff_ms
pub_backoff_cap_ms == 30000            \* publish_agent_event_with_retry: .min(30000.0)
JitterModulus == 50                    \* rand::random::<u64>() % 50
MAX_RETRIES == 10                      \* init_dlq_collection: const MAX_RETRIES
INITIAL_DELAY_MS == 100                \* init_dlq_collection: const INITIAL_DELAY_MS
MAX_DELAY_MS == 5000                   \* init_dlq_collection: const MAX_DELAY_MS

NoTime == -1                           \* Option<DateTime<Utc>>::None
NoTask == 0                            \* an entry added by a caller other than a publish task
NoKey == 0                             \* data.get("idempotency_key") is None
NoConv == 0                            \* data.get("conversation_id") is None

DLQStatus == {"pending", "retrying", "failed", "resolved"}
DLQErrorType == {"broker_publish_failed", "storage_failed", "validation_failed",
                 "timeout", "service_unavailable", "network_error", "unknown"}

Min(a, b) == IF a <= b THEN a ELSE b

TtlMs == dlq_ttl_days * DayMs

\* ------------------------------------------------------------------------
\* State
\* ------------------------------------------------------------------------
VARIABLES
    clock,      \* Utc::now(), milliseconds
    ticks,      \* number of clock advances so far
    store,      \* collection "dead_letter_queue": _id -> document
    nextId,     \* number of uuids generated by add so far
    sweeps,     \* the retry_pending_messages invocations
    claimedBy,  \* _id -> the invocations that ran update_one on it and counted it
    idem,       \* collection "idempotency_keys": set of _id
    calls,      \* the handle_event invocations
    tasks,      \* the spawned publish_agent_event_with_retry tasks
    backoff,    \* an application of calculate_backoff: its argument and result
    boot,       \* the init_dlq_collection invocation of main
    cleaned,    \* what the last cleanup_expired returned, and when
    listed,     \* what the last get_entries_by_status returned
    stats       \* the get_statistics invocation

dlqVars == <<store, nextId, sweeps, claimedBy>>
timeVars == <<clock, ticks>>
pipeVars == <<idem, calls, tasks>>
readVars == <<cleaned, listed, stats>>
auxVars == <<backoff, boot, readVars>>
vars == <<clock, ticks, store, nextId, sweeps, claimedBy, idem, calls, tasks,
          backoff, boot, cleaned, listed, stats>>

EntryIds == 1..MaxEntries
Sweepers == 1..NumSweepers
CallIds == 1..MaxCalls
Keys == 1..NumKeys

\* ------------------------------------------------------------------------
\* Dead letter queue (shared/src/dlq.rs)
\* ------------------------------------------------------------------------

\* a u32 is its top bit and its low 31 bits: the value is hi * 2^31 + lo
I32Max == 2147483647
u32(n) == [hi |-> 0, lo |-> n]

\* retry_count as i32: the same 32 bits read in two's complement
as_i32(r) == IF r.hi = 1 THEN (r.lo - I32Max) - 1 ELSE r.lo

\* ((x as f64) * 2.0f64.powi(n)).min(300_000.0) as u64, for x <= 300000:
\* n doublings, which stop mattering once the product is above the cap, or
\* -n halvings, of which the cast to u64 keeps the integer part
RECURSIVE delay_ms(_, _)
delay_ms(x, n) ==
    IF n = 0 \/ x = 0 THEN Min(x, BackoffCapMs)
    ELSE IF n > 0
         THEN IF x > BackoffCapMs THEN BackoffCapMs
              ELSE delay_ms(x * retry_backoff_multiplier, n - 1)
         ELSE delay_ms(x \div retry_backoff_multiplier, n + 1)

\* fn calculate_backoff(&self, retry_count: u32) -> u64
calculate_backoff(retry_count) ==
    delay_ms(retry_backoff_base_ms, as_i32(retry_count))

RetriesRemain_m(retry_count) == retry_count <= max_retries

\* add: the retry_count < self.max_retries test that decides next_retry_at and status
RetriesRemain(retry_count) == retry_count < max_retries

NextRetryAt_m(retry_count, now) ==
    IF RetriesRemain(retry_count) THEN now + retry_backoff_base_ms ELSE NoTime

\* add: let next_retry_at = if retry_count < self.max_retries { Some(now + backoff) } else { None }
NextRetryAt(retry_count, now) ==
    IF RetriesRemain(retry_count) THEN now + calculate_backoff(u32(retry_count)) ELSE NoTime

InitialStatus_m(retry_count) ==
    IF retry_count <= max_retries THEN "pending" ELSE "failed"

\* add: status: if retry_count < self.max_retries { Pending } else { Failed }
InitialStatus(retry_count) ==
    IF RetriesRemain(retry_count) THEN "pending" ELSE "failed"

\* add: the DeadLetterQueueEntry document that is inserted (with expires_at)
NewEntry(message, error, error_type, retry_count, now, by) ==
    [ message         |-> message,
      error           |-> error,
      error_type      |-> error_type,
      retry_count     |-> retry_count,
      max_retries     |-> max_retries,
      next_retry_at   |-> NextRetryAt(retry_count, now),
      created_at      |-> now,
      last_retry_at   |-> NoTime,
      status          |-> InitialStatus(retry_count),
      resolved_at     |-> NoTime,
      resolved_reason |-> "none",
      expires_at      |-> now + TtlMs,
      by              |-> by ]

\* collection.insert_one(doc): the store after the document got _id = id
Insert(st, id, entry) ==
    [i \in (DOMAIN st) \cup {id} |-> IF i = id THEN entry ELSE st[i]]

SweepFilter_m(e, now) ==
    /\ e.status = "pending"
    /\ e.retry_count < max_retries

\* retry_pending_messages: the find filter
\*   status = "pending", next_retry_at <= now, retry_count < max_retries
SweepFilter(e, now) ==
    /\ e.status = "pending"
    /\ e.next_retry_at # NoTime
    /\ e.next_retry_at <= now
    /\ e.retry_count < max_retries

SetRetrying_m(st, id, now) ==
    IF id \in DOMAIN st
    THEN [st EXCEPT ![id].status = "retrying", ![id].last_retry_at = now,
                    ![id].retry_count = @ + 1]
    ELSE st

\* retry_pending_messages: update_one({_id: id}, {$set: {status, last_retry_at}})
SetRetrying(st, id, now) ==
    IF id \in DOMAIN st
    THEN [st EXCEPT ![id].status = "retrying", ![id].last_retry_at = now]
    ELSE st

\* mark_resolved: update_one({_id: id}, {$set: {status, resolved_at, resolved_reason}})
SetResolved(st, id, reason, now) ==
    IF id \in DOMAIN st
    THEN [st EXCEPT ![id].status = "resolved",
                    ![id].resolved_at = now,
                    ![id].resolved_reason = reason]
    ELSE st

Expired_m(e, now) == e.created_at < now

\* cleanup_expired: the delete filter  expires_at < now
Expired(e, now) == e.expires_at < now

\* an invocation that has not started or has returned; the Result goes to
\* the caller, nothing of the invocation is kept
IdleSweep ==
    [ pc |-> "idle", cursor |-> {}, count |-> 0,
      scanStore |-> <<>>, scanTime |-> NoTime, alone |-> TRUE ]

\* every invocation of retry_pending_messages other than s that is between
\* its find and its return had another writer of the collection run
\* meanwhile: it no longer runs alone, and what it scanned is of no interest
Disturb(sw, s) ==
    [x \in Sweepers |->
        IF x # s /\ sw[x].pc = "cursor"
        THEN [sw[x] EXCEPT !.alone = FALSE, !.scanStore = <<>>, !.scanTime = NoTime]
        ELSE sw[x]]

\* the values callers other than the publisher pass to add
ExternalMessage == [idempotency_key |-> NoKey, conversation_id |-> NoConv]
AddRetryCounts == {0, 1, max_retries - 1, max_retries, max_retries + 1}
AddErrorTypes == {"storage_failed"}
ResolveReasons == {"manual"}

\* add(message, error, error_type, retry_count) called by a caller outside the
\* ingestion pipeline; inserted = FALSE is insert_one returning an error
Add(retry_count, error_type, inserted) ==
    /\ nextId < MaxEntries
    /\ nextId' = nextId + 1
    /\ IF inserted
       THEN /\ store' = Insert(store, nextId + 1,
                  NewEntry(ExternalMessage, "external", error_type, retry_count, clock, NoTask))
            /\ sweeps' = Disturb(sweeps, 0)
       ELSE UNCHANGED <<store, sweeps>>
    /\ UNCHANGED <<claimedBy, timeVars, pipeVars, auxVars>>

\* retry_pending_messages: collection.find(filter); found = FALSE is the
\* find returning an error
SweepFind(s, found) ==
    /\ sweeps[s].pc = "idle"
    /\ IF found
       THEN sweeps' = [sweeps EXCEPT ![s] =
                [ IdleSweep EXCEPT
                    !.pc = "cursor",
                    !.cursor = {id \in DOMAIN store : SweepFilter(store[id], clock)},
                    !.scanStore = store,
                    !.scanTime = clock ]]
       ELSE sweeps' = [sweeps EXCEPT ![s] = IdleSweep]
    /\ UNCHANGED <<store, nextId, claimedBy, timeVars, pipeVars, auxVars>>

\* retry_pending_messages: one iteration of while cursor.advance(): update_one
\* on the document's _id, then count += 1; updated = FALSE is update_one
\* returning an error
SweepClaim(s, id, updated) ==
    /\ sweeps[s].pc = "cursor"
    /\ id \in sweeps[s].cursor
    /\ IF updated
       THEN /\ store' = SetRetrying(store, id, clock)
            /\ sweeps' = [Disturb(sweeps, s) EXCEPT
                            ![s].cursor = @ \ {id},
                            ![s].count = @ + 1]
            /\ claimedBy' = [claimedBy EXCEPT ![id] = @ \cup {s}]
       ELSE /\ sweeps' = [sweeps EXCEPT ![s] = IdleSweep]
            /\ UNCHANGED <<store, claimedBy>>
    /\ UNCHANGED <<nextId, timeVars, pipeVars, auxVars>>

\* retry_pending_messages: the cursor is exhausted, Ok(count)
SweepReturn(s) ==
    /\ sweeps[s].pc = "cursor"
    /\ sweeps[s].cursor = {}
    /\ sweeps' = [sweeps EXCEPT ![s] = IdleSweep]
    /\ UNCHANGED <<store, nextId, claimedBy, timeVars, pipeVars, auxVars>>

\* mark_resolved(dlq_id, reason); on an id that matches no document the
\* update changes nothing
MarkResolved(id, reason) ==
    /\ store' = SetResolved(store, id, reason, clock)
    /\ sweeps' = IF id \in DOMAIN store THEN Disturb(sweeps, 0) ELSE sweeps
    /\ UNCHANGED <<nextId, claimedBy, timeVars, pipeVars, auxVars>>

\* the Result of a cleanup_expired call: Ok(count) or Err
NoCleanup == [result |-> "none", count |-> 0]

\* cleanup_expired: delete_many({expires_at: {$lt: now}}) and Ok(deleted_count);
\* deleted = FALSE is delete_many returning an error
CleanupExpired(deleted) ==
    /\ IF deleted
       THEN /\ store' = [id \in {i \in DOMAIN store : ~Expired(store[i], clock)} |-> store[id]]
            /\ cleaned' = [result |-> "ok",
                           count |-> Cardinality({i \in DOMAIN store : Expired(store[i], clock)})]
            /\ sweeps' = Disturb(sweeps, 0)
       ELSE /\ cleaned' = [result |-> "err", count |-> 0]
            /\ UNCHANGED <<store, sweeps>>
    /\ UNCHANGED <<nextId, claimedBy, timeVars, pipeVars, backoff, boot, listed, stats>>

\* the TTL index expires_at_idx, expire_after(0): the datastore deletes, on
\* its own schedule, a document that is expired
TtlIndexExpire(id) ==
    /\ id \in DOMAIN store
    /\ Expired(store[id], clock)
    /\ store' = [i \in (DOMAIN store) \ {id} |-> store[i]]
    /\ sweeps' = Disturb(sweeps, 0)
    /\ UNCHANGED <<nextId, claimedBy, timeVars, pipeVars, auxVars>>

\* the Result of a get_entries_by_status call: Ok(entries), as their ids, or Err
NoLimit == -1
NoListing == [result |-> "none", ids |-> <<>>]
Limits == {NoLimit, 1}

\* get_entries_by_status: what find({status}, sort created_at desc, limit) can
\* return: the matching documents, newest first (documents of one created_at
\* in any order), the first limit of them
get_entries_by_status(st, status, limit) ==
    LET matching == {id \in DOMAIN st : st[id].status = status}
        n == IF limit = NoLimit THEN Cardinality(matching)
             ELSE Min(limit, Cardinality(matching))
    IN  {ids \in [1..n -> matching] :
            /\ \A i, j \in 1..n : i < j =>
                    /\ ids[i] # ids[j]
                    /\ st[ids[i]].created_at >= st[ids[j]].created_at
            /\ \A id \in matching : (\A i \in 1..n : ids[i] # id) =>
                    \A i \in 1..n : st[ids[i]].created_at >= st[id].created_at}

\* get_entries_by_status(status, limit); answered = FALSE is the find (or
\* the cursor) returning an error
GetEntriesByStatus(status, limit, answered) ==
    /\ IF answered
       THEN \E ids \in get_entries_by_status(store, status, limit) :
                listed' = [result |-> "ok", ids |-> ids]
       ELSE listed' = [result |-> "err", ids |-> <<>>]
    /\ UNCHANGED <<dlqVars, timeVars, pipeVars, backoff, boot, cleaned, stats>>

\* count_documents({status})
CountStatus(st, status) == Cardinality({id \in DOMAIN st : st[id].status = status})

\* a get_statistics invocation: which count_documents it makes next, and
\* the counts it holds; pc = "returned" is after Ok(DLQStatistics), of
\* which nothing is kept
IdleStats == [pc |-> "idle", total |-> 0, pending |-> 0, failed |-> 0]

\* get_statistics: the next count_documents of the four; counted = FALSE is
\* count_documents returning an error
StatsCount(counted) ==
    /\ IF ~counted
       THEN stats' = IdleStats
       ELSE CASE stats.pc \in {"idle", "returned"} ->
                    stats' = [IdleStats EXCEPT !.pc = "pending",
                                               !.total = Cardinality(DOMAIN store)]
              [] stats.pc = "pending" ->
                    stats' = [stats EXCEPT !.pc = "failed",
                                           !.pending = CountStatus(store, "pending")]
              [] stats.pc = "failed" ->
                    stats' = [stats EXCEPT !.pc = "retrying",
                                           !.failed = CountStatus(store, "failed")]
              [] stats.pc = "retrying" ->
                    stats' = [IdleStats EXCEPT !.pc = "returned"]
    /\ UNCHANGED <<dlqVars, timeVars, pipeVars, backoff, boot, cleaned, listed>>

\* ------------------------------------------------------------------------
\* Ingestion (agent-gateway/src/handlers.rs, handle_event)
\* ------------------------------------------------------------------------
EventTypes == {"messaging.message.received", "other"}
ConvIds == {1}

\* the inbound CloudEvents: type, whether JSON data is present, and the
\* idempotency_key and conversation_id strings of the data; an event without
\* data has neither, and at most one of the two strings is missing
Events ==
    {e \in [ty : EventTypes, has_data : BOOLEAN,
            key : Keys \cup {NoKey}, conv : ConvIds \cup {NoConv}] :
        /\ ~e.has_data => (e.key = NoKey /\ e.conv = NoConv)
        /\ e.has_data => (e.key # NoKey \/ e.conv # NoConv)
        /\ (e.ty = "other" /\ e.has_data) => (e.key # NoKey /\ e.conv # NoConv)}

NoEvent == [ty |-> "other", has_data |-> FALSE, key |-> NoKey, conv |-> NoConv]

IdleCall == [pc |-> "idle", ev |-> NoEvent, result |-> "none", via |-> "none", late |-> FALSE]

\* no agent.message event has been built
NoOutbound == [id |-> 0, ty |-> "none", data |-> ExternalMessage]

NoTaskYet ==
    [ pc |-> "none", retry_count |-> 0, backoff_ms |-> 0, posts |-> 0, fails |-> 0,
      adds |-> 0, inserted |-> 0, delay |-> 0, error |-> "none", result |-> "none",
      message |-> ExternalMessage, agent_id |-> "none",
      event |-> NoOutbound, sent |-> {}, sleeps |-> 0 ]

Recognized_m(ev) == TRUE

\* handle_event: if event.ty() != "messaging.message.received" { return Ok("OK") }
Recognized(ev) == ev.ty = "messaging.message.received"

IsDuplicate_m(existing) == FALSE

\* handle_event: if existing.is_some() { return Ok("OK") }
IsDuplicate(existing) == existing

\* handle_event: agent_id from the conversation lookup
\*   found with a string agent_id -> that id; otherwise "agent-bruno"
AgentId(conv) == IF conv = "agent" THEN "agent-stored" ELSE "agent-bruno"

\* handle_event: the agent.message CloudEvent, EventBuilderV10 with a new
\* uuid (one per call that gets this far: the call's number), the type
\* "agent.message" and data.clone()
AgentEvent(c, ev) ==
    [ id   |-> c,
      ty   |-> "agent.message",
      data |-> [idempotency_key |-> ev.key, conversation_id |-> ev.conv] ]

MissingConversationId_m(ev) == FALSE

\* handle_event: data.get("conversation_id").and_then(as_str) is None
MissingConversationId(ev) == ev.conv = NoConv

Finish(call, result, via) == [call EXCEPT !.pc = "done", !.result = result, !.via = via]

\* handle_event up to the first await: the event type test, the data and
\* idempotency_key extraction
HandleEvent(c, ev) ==
    /\ calls[c].pc = "idle"
    /\ \A b \in CallIds : b < c => calls[b].pc # "idle"
    /\ LET call == [IdleCall EXCEPT !.ev = ev,
                        !.late = (Recognized(ev) /\ ev.key # NoKey /\ ev.key \in idem)]
       IN  calls' = [calls EXCEPT ![c] =
                IF ~Recognized(ev) THEN Finish(call, "OK", "ignored")
                ELSE IF ~ev.has_data THEN Finish(call, "Validation", "data")
                ELSE IF ev.key = NoKey THEN Finish(call, "Validation", "idempotency_key")
                ELSE [call EXCEPT !.pc = "idem"]]
    /\ UNCHANGED <<idem, tasks, dlqVars, timeVars, auxVars>>

\* handle_event: collection.find_one on "idempotency_keys" answers
\* (answered = FALSE: it returns an error), the duplicate test, and the
\* conversation_id extraction
IdemLookup(c, answered) ==
    /\ calls[c].pc = "idem"
    /\ calls' = [calls EXCEPT ![c] =
            IF ~answered THEN Finish(@, "Database", "idempotency_keys")
            ELSE IF IsDuplicate(@.ev.key \in idem) THEN Finish(@, "OK", "duplicate")
            ELSE IF MissingConversationId(@.ev) THEN Finish(@, "Validation", "conversation_id")
            ELSE [@ EXCEPT !.pc = "conv"]]
    /\ UNCHANGED <<idem, tasks, dlqVars, timeVars, auxVars>>

Acknowledge_m(call) == [call EXCEPT !.pc = "publishing", !.via = "fresh"]

\* handle_event: Ok("OK") right after tokio::spawn, the task is not awaited
Acknowledge(call) == Finish(call, "OK", "fresh")

ConvAnswers == {"error", "absent", "agent", "malformed"}

\* handle_event: conv_collection.find_one answers, the agent.message event
\* is built, the publish task is spawned and Ok("OK") is returned
ConvLookup(c, conv) ==
    /\ calls[c].pc = "conv"
    /\ IF conv = "error"
       THEN /\ calls' = [calls EXCEPT ![c] = Finish(@, "Database", "conversations")]
            /\ UNCHANGED tasks
       ELSE /\ calls' = [calls EXCEPT ![c] = Acknowledge(@)]
            /\ tasks' = [tasks EXCEPT ![c] =
                  [ NoTaskYet EXCEPT
                      !.pc = "client",
                      !.backoff_ms = pub_initial_backoff_ms,
                      !.agent_id = AgentId(conv),
                      !.event = AgentEvent(c, calls[c].ev),
                      !.message = [idempotency_key |-> calls[c].ev.key,
                                   conversation_id |-> calls[c].ev.conv] ]]
    /\ UNCHANGED <<idem, dlqVars, timeVars, auxVars>>

\* the event's persistence path writes the idempotency record of a key that
\* a call has passed as fresh
PersistIdempotencyRecord(k) ==
    /\ k \notin idem
    /\ \E c \in CallIds : calls[c].ev.key = k /\ calls[c].via = "fresh"
    /\ idem' = idem \cup {k}
    /\ UNCHANGED <<calls, tasks, dlqVars, timeVars, auxVars>>

\* ------------------------------------------------------------------------
\* Retrying publisher (handlers.rs, publish_agent_event_with_retry)
\* ------------------------------------------------------------------------

Exhausted_m(retry_count) == retry_count > pub_max_retries

\* if retry_count >= max_retries
Exhausted(retry_count) == retry_count >= pub_max_retries

NextBackoff_m(backoff_ms) == Min(backoff_ms, pub_backoff_cap_ms)

\* backoff_ms = (backoff_ms as f64 * 2.0).min(30000.0) as u64
NextBackoff(backoff_ms) == Min(backoff_ms * 2, pub_backoff_cap_ms)

\* jitter = rand::random::<u64>() % 50: the extreme values
Jitters == {0, JitterModulus - 1}

PostOutcomes == {"success", "status", "transport"}

\* the task returns: the closure of tokio::spawn logs the result and ends
Done(task, result) ==
    [task EXCEPT !.pc = "done", !.result = result, !.delay = 0, !.agent_id = "none"]

AttemptEvent_m(task) == [task.event EXCEPT !.id = @ + task.posts]

\* client.post(broker_url).json(event): the body of an attempt is the event
\* the task was given by reference
AttemptEvent(task) == task.event

AddOutcome_m(inserted) == IF inserted THEN "err_delivery" ELSE "err_dlq"

\* let _ = dlq.add(..).await; return Err(AppError::Internal(error_msg)):
\* the Result of add is dropped
AddOutcome(inserted) == "err_delivery"

\* loop: reqwest::Client::builder().timeout(10s).build(); built = FALSE is
\* build() returning an error, which map_err(..)? returns to the caller
BuildClient(t, built) ==
    /\ tasks[t].pc = "client"
    /\ tasks' = [tasks EXCEPT ![t] =
            IF built THEN [@ EXCEPT !.pc = "post", !.delay = 0]
            ELSE Done(@, "err_client")]
    /\ UNCHANGED <<idem, calls, dlqVars, timeVars, auxVars>>

\* client.post(broker_url).json(event).send().await and the match on it
Post(t, outcome) ==
    /\ tasks[t].pc = "post"
    /\ tasks' = [tasks EXCEPT ![t] =
            LET sending == [@ EXCEPT !.posts = @ + 1,
                                     !.sent = @ \cup {AttemptEvent(tasks[t])}]
            IN  IF outcome = "success"
                THEN Done(sending, "ok")
                ELSE IF Exhausted(sending.retry_count)
                THEN [sending EXCEPT !.pc = "add", !.fails = @ + 1, !.error = outcome]
                ELSE [sending EXCEPT !.pc = "sleep", !.fails = @ + 1,
                                     !.retry_count = @ + 1]]
    /\ UNCHANGED <<idem, calls, dlqVars, timeVars, auxVars>>

\* let _ = dlq.add(message_for_dlq, error_msg, BrokerPublishFailed, retry_count).await;
\* return Err(AppError::Internal(error_msg))
DlqAdd(t, inserted) ==
    /\ tasks[t].pc = "add"
    /\ nextId < MaxEntries
    /\ nextId' = nextId + 1
    /\ IF inserted
       THEN /\ store' = Insert(store, nextId + 1,
                  NewEntry(tasks[t].message, tasks[t].error, "broker_publish_failed",
                           tasks[t].retry_count, clock, t))
            /\ sweeps' = Disturb(sweeps, 0)
       ELSE UNCHANGED <<store, sweeps>>
    /\ tasks' = [tasks EXCEPT ![t] =
            [Done(@, AddOutcome(inserted)) EXCEPT !.adds = @ + 1,
                      !.inserted = IF inserted THEN @ + 1 ELSE @]]
    /\ UNCHANGED <<claimedBy, idem, calls, timeVars, auxVars>>

\* tokio::time::sleep(backoff_ms + jitter), then the backoff is doubled
Sleep(t, jitter) ==
    /\ tasks[t].pc = "sleep"
    /\ tasks' = [tasks EXCEPT ![t] =
            [@ EXCEPT !.pc = "client",
                      !.sleeps = @ + 1,
                      !.delay = tasks[t].backoff_ms + jitter,
                      !.backoff_ms = NextBackoff(@)]]
    /\ UNCHANGED <<idem, calls, dlqVars, timeVars, auxVars>>

\* ------------------------------------------------------------------------
\* Bootstrap (shared/src/dlq.rs, init_dlq_collection, awaited by main)
\* ------------------------------------------------------------------------

\* the invocation at the head of the loop, for attempt in 0..MAX_RETRIES:
\* the loop variable, the failed pings and create_indexes so far, the sleeps
\* made and the delay of the sleep it is in
IdleBoot ==
    [ pc |-> "ping", attempt |-> 0, ping_fails |-> 0, index_fails |-> 0,
      sleeps |-> 0, delay_ms |-> 0 ]

BootDelay_m(attempt) == INITIAL_DELAY_MS * 2^attempt

\* std::cmp::min(INITIAL_DELAY_MS * (1 << attempt), MAX_DELAY_MS)
BootDelay(attempt) == Min(INITIAL_DELAY_MS * 2^attempt, MAX_DELAY_MS)

\* the Err arms: if attempt < MAX_RETRIES - 1 { sleep(delay_ms) } else { return Err(..) }
AttemptFailed(b) ==
    IF b.attempt < MAX_RETRIES - 1
    THEN [b EXCEPT !.pc = "sleep", !.delay_ms = BootDelay(b.attempt)]
    ELSE [b EXCEPT !.pc = "fatal"]

\* db.run_command({ping: 1}) answers; answered = FALSE is the Err arm
BootPing(answered) ==
    /\ boot.pc = "ping"
    /\ boot' = IF answered THEN [boot EXCEPT !.pc = "index"]
               ELSE AttemptFailed([boot EXCEPT !.ping_fails = @ + 1])
    /\ UNCHANGED <<dlqVars, timeVars, pipeVars, backoff, readVars>>

\* collection.create_indexes(indexes) answers: Ok returns Ok(()), created =
\* FALSE is the Err arm
BootCreateIndexes(created) ==
    /\ boot.pc = "index"
    /\ boot' = IF created THEN [boot EXCEPT !.pc = "ok"]
               ELSE AttemptFailed([boot EXCEPT !.index_fails = @ + 1])
    /\ UNCHANGED <<dlqVars, timeVars, pipeVars, backoff, readVars>>

\* tokio::time::sleep(delay_ms) is over, the for loop takes the next attempt
BootSleep ==
    /\ boot.pc = "sleep"
    /\ boot' = [boot EXCEPT !.pc = "ping", !.attempt = @ + 1, !.sleeps = @ + 1,
                            !.delay_ms = 0]
    /\ UNCHANGED <<dlqVars, timeVars, pipeVars, backoff, readVars>>


\* ------------------------------------------------------------------------
\* calculate_backoff as a function of its u32 argument
\* ------------------------------------------------------------------------
NotApplied == -1
NoBackoff == [hi |-> 0, lo |-> 0, out |-> NotApplied]

\* the arguments: the smallest and the largest u32 values of either top bit
BackoffArgs ==
    [hi : {0, 1},
     lo : (0..MaxBackoffArg) \cup {I32Max - k : k \in 0..MaxBackoffArg}]

\* let backoff_ms = self.calculate_backoff(retry_count)
ApplyBackoff ==
    /\ backoff.out = NotApplied
    /\ backoff' = [backoff EXCEPT !.out = calculate_backoff([hi |-> backoff.hi, lo |-> backoff.lo])]
    /\ UNCHANGED <<dlqVars, timeVars, pipeVars, boot, readVars>>

\* ------------------------------------------------------------------------
\* Time and the specifications
\* ------------------------------------------------------------------------
\* the wall clock advances
TickSteps == {retry_backoff_base_ms}

Tick(d) ==
    /\ ticks < MaxTicks
    /\ ticks' = ticks + 1
    /\ clock' = clock + d
    /\ UNCHANGED <<dlqVars, pipeVars, auxVars>>

Init ==
    /\ clock = 0
    /\ ticks = 0
    /\ store = <<>>
    /\ nextId = 0
    /\ sweeps = [s \in Sweepers |-> IdleSweep]
    /\ claimedBy = [id \in EntryIds |-> {}]
    /\ idem = {}
    /\ calls = [c \in CallIds |-> IdleCall]
    /\ tasks = [c \in CallIds |-> NoTaskYet]
    /\ backoff = NoBackoff
    /\ boot = IdleBoot
    /\ cleaned = NoCleanup
    /\ listed = NoListing
    /\ stats = IdleStats

NextDLQ ==
    \/ \E rc \in AddRetryCounts, et \in AddErrorTypes, ok \in BOOLEAN : Add(rc, et, ok)
    \/ \E s \in Sweepers, ok \in BOOLEAN : SweepFind(s, ok)
    \/ \E s \in Sweepers, id \in EntryIds, ok \in BOOLEAN : SweepClaim(s, id, ok)
    \/ \E s \in Sweepers : SweepReturn(s)
    \/ \E id \in EntryIds, r \in ResolveReasons : MarkResolved(id, r)
    \/ \E d \in TickSteps : Tick(d)

SpecDLQ == Init /\ [][NextDLQ]_vars

NextPipeline ==
    \/ \E c \in CallIds, ev \in Events : HandleEvent(c, ev)
    \/ \E c \in CallIds, ok \in BOOLEAN : IdemLookup(c, ok)
    \/ \E c \in CallIds, conv \in ConvAnswers : ConvLookup(c, conv)
    \/ \E k \in Keys : PersistIdempotencyRecord(k)
    \/ \E t \in CallIds, ok \in BOOLEAN : BuildClient(t, ok)
    \/ \E t \in CallIds, o \in PostOutcomes : Post(t, o)
    \/ \E t \in CallIds, ok \in BOOLEAN : DlqAdd(t, ok)
    \/ \E t \in CallIds, j \in Jitters : Sleep(t, j)

SpecPipeline == Init /\ [][NextPipeline]_vars

\* the clock advances that reach, and pass, the expires_at of an entry
ExpirySteps == {TtlMs, TtlMs + retry_backoff_base_ms}
ExpiryRetryCounts == {0, max_retries}
ExpirySweepers == {1}

NextExpiry ==
    \/ \E rc \in ExpiryRetryCounts, et \in AddErrorTypes, ok \in BOOLEAN : Add(rc, et, ok)
    \/ \E s \in ExpirySweepers, ok \in BOOLEAN : SweepFind(s, ok)
    \/ \E s \in ExpirySweepers, id \in EntryIds, ok \in BOOLEAN : SweepClaim(s, id, ok)
    \/ \E s \in ExpirySweepers : SweepReturn(s)
    \/ \E id \in EntryIds, r \in ResolveReasons : MarkResolved(id, r)
    \/ \E st \in DLQStatus, l \in Limits, ok \in BOOLEAN : GetEntriesByStatus(st, l, ok)
    \/ \E ok \in BOOLEAN : StatsCount(ok)
    \/ \E ok \in BOOLEAN : CleanupExpired(ok)
    \/ \E id \in EntryIds : TtlIndexExpire(id)
    \/ \E d \in ExpirySteps : Tick(d)

SpecExpiry == Init /\ [][NextExpiry]_vars

\* cleanup_expired among the calls that create, change and list entries
NextCleanup ==
    \/ \E rc \in ExpiryRetryCounts, et \in AddErrorTypes, ok \in BOOLEAN : Add(rc, et, ok)
    \/ \E id \in EntryIds, r \in ResolveReasons : MarkResolved(id, r)
    \/ \E st \in DLQStatus, l \in Limits, ok \in BOOLEAN : GetEntriesByStatus(st, l, ok)
    \/ \E ok \in BOOLEAN : CleanupExpired(ok)
    \/ \E id \in EntryIds : TtlIndexExpire(id)
    \/ \E d \in ExpirySteps : Tick(d)

SpecCleanup == Init /\ [][NextCleanup]_vars

\* the ingestion pipeline next to the sweeps, mark_resolved and expiry, with
\* one other caller of add whose entries the sweeps do select
IngestRetryCounts == {0}

SweepStepsOf(S) ==
    \/ \E s \in S, ok \in BOOLEAN : SweepFind(s, ok)
    \/ \E s \in S, id \in EntryIds, ok \in BOOLEAN : SweepClaim(s, id, ok)
    \/ \E s \in S : SweepReturn(s)

IngestCalls == {1}

NextIngest ==
    \/ \E c \in IngestCalls, ev \in Events : HandleEvent(c, ev)
    \/ \E c \in IngestCalls, ok \in BOOLEAN : IdemLookup(c, ok)
    \/ \E c \in IngestCalls, conv \in ConvAnswers : ConvLookup(c, conv)
    \/ \E t \in IngestCalls, ok \in BOOLEAN : BuildClient(t, ok)
    \/ \E t \in IngestCalls, o \in PostOutcomes : Post(t, o)
    \/ \E t \in IngestCalls, ok \in BOOLEAN : DlqAdd(t, ok)
    \/ \E t \in IngestCalls, j \in Jitters : Sleep(t, j)
    \/ \E rc \in IngestRetryCounts, et \in AddErrorTypes, ok \in BOOLEAN : Add(rc, et, ok)
    \/ SweepStepsOf(ExpirySweepers)
    \/ \E id \in EntryIds, r \in ResolveReasons : MarkResolved(id, r)
    \/ \E id \in EntryIds : TtlIndexExpire(id)
    \/ \E d \in ExpirySteps : Tick(d)

SpecIngest == Init /\ [][NextIngest]_vars

\* calculate_backoff applied to one argument of BackoffArgs
InitBackoff ==
    /\ clock = 0
    /\ ticks = 0
    /\ store = <<>>
    /\ nextId = 0
    /\ sweeps = [s \in Sweepers |-> IdleSweep]
    /\ claimedBy = [id \in EntryIds |-> {}]
    /\ idem = {}
    /\ calls = [c \in CallIds |-> IdleCall]
    /\ tasks = [c \in CallIds |-> NoTaskYet]
    /\ boot = IdleBoot
    /\ cleaned = NoCleanup
    /\ listed = NoListing
    /\ stats = IdleStats
    /\ \E a \in BackoffArgs : backoff = [hi |-> a.hi, lo |-> a.lo, out |-> NotApplied]

NextCalc == ApplyBackoff

SpecBackoff == InitBackoff /\ [][NextCalc]_vars

\* the steps of the retry_pending_messages invocations
SweepSteps ==
    \/ \E s \in Sweepers, ok \in BOOLEAN : SweepFind(s, ok)
    \/ \E s \in Sweepers, id \in EntryIds, ok \in BOOLEAN : SweepClaim(s, id, ok)
    \/ \E s \in Sweepers : SweepReturn(s)

\* the dead letter queue left to add and to the sweeper, which is invoked
\* again and again and whose datastore calls answer: no mark_resolved, no
\* expiry
NextRecovery ==
    \/ \E rc \in AddRetryCounts, et \in AddErrorTypes, ok \in BOOLEAN : Add(rc, et, ok)
    \/ SweepSteps
    \/ \E d \in TickSteps : Tick(d)

SpecRecovery == Init /\ [][NextRecovery]_vars /\ WF_vars(SweepSteps)

NextBoot ==
    \/ \E ok \in BOOLEAN : BootPing(ok)
    \/ \E ok \in BOOLEAN : BootCreateIndexes(ok)
    \/ BootSleep

\* main awaits init_dlq_collection: the runtime keeps polling it, the
\* datastore calls answer (Ok or Err) and the sleeps end
SpecBoot == Init /\ [][NextBoot]_vars /\ WF_vars(NextBoot)

Next == NextPipeline \/ NextDLQ \/ NextExpiry \/ NextCalc \/ NextBoot

Spec == Init /\ [][Next]_vars

\* ------------------------------------------------------------------------
\* Properties of the retrying publisher and of ingestion (SpecPipeline)
\* ------------------------------------------------------------------------

\* the dead letter documents that publish task t inserted
EntriesOf(t) == {id \in DOMAIN store : store[id].by = t}

OrigC3 ==
    \A t \in CallIds :
        tasks[t].pc = "done" =>
            \/ tasks[t].result = "ok"
            \/ (tasks[t].result = "err_delivery" /\ tasks[t].adds >= 1)

\* the calls that carried key k and dispatched a publish task
DispatchedFor(k) ==
    {c \in CallIds : tasks[c].pc # "none" /\ calls[c].ev.key = k}

\* the recognized calls carrying key k that started before its record existed
EarlyCalls(k) ==
    {c \in CallIds : /\ calls[c].pc # "idle"
                     /\ Recognized(calls[c].ev)
                     /\ calls[c].ev.key = k
                     /\ ~calls[c].late}

\* C4 as stated: a call that starts once the idempotency record of its key
\* exists returns the acknowledgment through the duplicate path and dispatches
\* no publish task.
OrigC4 ==
    \A c \in CallIds :
        (calls[c].late /\ calls[c].pc = "done") =>
            /\ calls[c].result = "OK"
            /\ calls[c].via = "duplicate"
            /\ tasks[c].pc = "none"

\* C4, amended: a call of the recognized type that starts once the
\* idempotency record of its key exists dispatches no publish task; it
\* returns the acknowledgment through the duplicate path, unless its lookup
\* in idempotency_keys fails, and then it returns the datastore error.  So
\* when one call was processed before the record existed, exactly that one
\* publish sequence exists for the key.
ThmC4 ==
    /\ \A c \in CallIds :
          calls[c].late =>
              /\ tasks[c].pc = "none"
              /\ calls[c].pc \in {"idem", "done"}
              /\ calls[c].pc = "done" =>
                    \/ (calls[c].result = "OK" /\ calls[c].via = "duplicate")
                    \/ (calls[c].result = "Database" /\ calls[c].via = "idempotency_keys")
    /\ \A k \in Keys :
          /\ DispatchedFor(k) \subseteq EarlyCalls(k)
          /\ (k \in idem /\ Cardinality(EarlyCalls(k)) = 1) =>
                Cardinality(DispatchedFor(k)) = 1

WitC4 ==
    \E c \in CallIds, k \in Keys :
        /\ calls[c].late
        /\ calls[c].ev.key = k
        /\ calls[c].pc = "done"
        /\ calls[c].via = "duplicate"
        /\ Cardinality(DispatchedFor(k)) = 1

\* ------------------------------------------------------------------------
\* Properties of the dead letter queue (SpecDLQ)
\* ------------------------------------------------------------------------

\* C5 as stated: no entry is claimed (updated to Retrying and counted) by
\* more than one invocation of retry_pending_messages.
OrigC5 == \A id \in EntryIds : Cardinality(claimedBy[id]) <= 1

\* the entries of store st that are Pending, due at time now and have
\* retries left
DueAt(st, now) ==
    {id \in DOMAIN st : /\ st[id].status = "pending"
                        /\ st[id].next_retry_at # NoTime
                        /\ st[id].next_retry_at <= now
                        /\ st[id].retry_count < st[id].max_retries}

\* C6: when a retry_pending_messages pass that ran alone returns Ok(count),
\* the entries that were Pending, due and below max_retries at its scan are
\* Retrying with last_retry_at set to the time of their update, every other
\* entry (Pending and not due, Failed, Retrying, Resolved) is as it was at the
\* scan, and count is the number of entries transitioned.
ThmC6 ==
    [][\A s \in Sweepers :
        ( /\ sweeps[s].pc = "cursor"
          /\ sweeps[s].cursor = {}
          /\ sweeps[s].alone
          /\ sweeps'[s].pc = "idle" ) =>
            LET pre == sweeps[s].scanStore
                t0  == sweeps[s].scanTime
                due == DueAt(pre, t0)
            IN  /\ sweeps[s].count = Cardinality(due)
                /\ DOMAIN store = DOMAIN pre
                /\ \A id \in DOMAIN pre :
                      IF id \in due
                      THEN /\ store[id].status = "retrying"
                           /\ store[id].last_retry_at >= t0
                           /\ store[id].last_retry_at <= clock
                           /\ store[id] = [pre[id] EXCEPT
                                  !.status = "retrying",
                                  !.last_retry_at = store[id].last_retry_at]
                      ELSE store[id] = pre[id]
      ]_vars

\* a pass that ran alone is about to return 1 and left a Pending entry that
\* was not yet due
WitC6 ==
    \E s \in Sweepers :
        /\ sweeps[s].pc = "cursor"
        /\ sweeps[s].cursor = {}
        /\ sweeps[s].alone
        /\ sweeps[s].count = 1
        /\ \E id \in DOMAIN store :
              /\ store[id].status = "pending"
              /\ store[id].next_retry_at > sweeps[s].scanTime

\* C7: the entry that add creates has status Failed and no next_retry_at when
\* retry_count = max_retries; when retry_count < max_retries it is Pending
\* and next_retry_at = created_at + 100 * 2^retry_count ms, later than
\* created_at.
ThmC7 ==
    [][\A id \in (DOMAIN store') \ (DOMAIN store) :
        LET e == store'[id]
        IN  /\ e.created_at = clock
            /\ e.retry_count = 5 =>
                  (e.status = "failed" /\ e.next_retry_at = NoTime)
            /\ e.retry_count < 5 =>
                  /\ e.status = "pending"
                  /\ e.next_retry_at = e.created_at + 100 * (2 ^ e.retry_count)
                  /\ e.next_retry_at > e.created_at
      ]_vars

WitC7 ==
    \E a, b \in DOMAIN store :
        /\ store[a].retry_count = 5 /\ store[a].status = "failed"
        /\ store[b].retry_count = 4 /\ store[b].status = "pending"
        /\ store[b].next_retry_at = store[b].created_at + 1600

\* C8 as stated: every stored entry has one of the four statuses and
\* retry_count <= max_retries.
OrigC8 ==
    \A id \in DOMAIN store :
        /\ store[id].status \in DLQStatus
        /\ store[id].retry_count <= store[id].max_retries

\* C9: a stored entry is Failed exactly when its retry_count >= max_retries
\* and it was never marked resolved; an exhausted entry is never Pending or
\* Retrying, an entry with retries left is never Failed.
ThmC9 ==
    \A id \in DOMAIN store :
        LET e == store[id]
        IN  /\ (e.status = "failed") <=>
                  (e.retry_count >= e.max_retries /\ e.resolved_at = NoTime)
            /\ e.retry_count >= e.max_retries => e.status \in {"failed", "resolved"}
            /\ e.retry_count < e.max_retries => e.status # "failed"

WitC9 ==
    \E a, b \in DOMAIN store :
        /\ store[a].retry_count >= 5 /\ store[a].status = "resolved"
        /\ store[b].retry_count < 5 /\ store[b].status = "retrying"

\* C10 as stated: an entry has a next_retry_at only while it is Pending.
OrigC10 ==
    \A id \in DOMAIN store :
        store[id].next_retry_at # NoTime => store[id].status = "pending"

\* ------------------------------------------------------------------------
\* Properties of calculate_backoff (SpecBackoff)
\* ------------------------------------------------------------------------

OrigC12 ==
    [][/\ (cleaned' # cleaned /\ cleaned'.result = "ok") =>
             /\ \A id \in DOMAIN store' : store'[id].expires_at > clock
             /\ \A id \in (DOMAIN store) \ (DOMAIN store') : store[id].expires_at <= clock
             /\ cleaned'.count = Cardinality((DOMAIN store) \ (DOMAIN store'))
       /\ listed' # listed =>
             \A i \in DOMAIN listed'.ids : listed'.ids[i] \in DOMAIN store']_vars

\* C13: expiry is the only deletion path.  A step removes an entry only
\* when the entry's expires_at has passed, and such a step is no add, no
\* retry_pending_messages step, no mark_resolved and no read: it generates no
\* id, moves no sweep, changes no remaining entry and returns no listing or
\* statistics.  An id that enters the store is a newly generated one, so a
\* removed id never comes back.
ThmC13 ==
    [][/\ \A id \in (DOMAIN store) \ (DOMAIN store') :
              /\ store[id].expires_at < clock
              /\ nextId' = nextId
              /\ claimedBy' = claimedBy
              /\ \A s \in Sweepers : /\ sweeps'[s].pc = sweeps[s].pc
                                      /\ sweeps'[s].cursor = sweeps[s].cursor
                                      /\ sweeps'[s].count = sweeps[s].count
              /\ \A other \in DOMAIN store' : store'[other] = store[other]
              /\ listed' = listed
              /\ stats' = stats
       /\ \A id \in (DOMAIN store') \ (DOMAIN store) : id > nextId]_vars

\* an entry was removed by cleanup_expired, and a later add stored an entry
\* under another id
WitC13 ==
    /\ cleaned.result = "ok"
    /\ cleaned.count = 1
    /\ DOMAIN store = {2}
    /\ store[2].created_at > TtlMs

\* ------------------------------------------------------------------------
\* Properties of ingestion and of the outbound event (SpecPipeline)
\* ------------------------------------------------------------------------

\* C14: an accepted event is acknowledged without waiting for delivery.  As
\* soon as the publish task of a call exists, before its first attempt and
\* whatever the task does and however it ends, the response of the call is
\* Ok("OK"); and no response of any call carries an outcome of the broker
\* or of the dead letter queue.
ThmC14 ==
    \A c \in CallIds :
        /\ tasks[c].pc # "none" =>
              /\ calls[c].pc = "done"
              /\ calls[c].result = "OK"
              /\ calls[c].via = "fresh"
        /\ calls[c].result \in {"none", "OK", "Validation", "Database"}

\* a call answered OK whose publish task ended in DeliveryFailed, with a
\* dead letter entry, and one whose task has not made its first attempt
WitC14 ==
    \E c, d \in CallIds :
        /\ calls[c].result = "OK"
        /\ tasks[c].result = "err_delivery"
        /\ EntriesOf(c) # {}
        /\ calls[d].result = "OK"
        /\ tasks[d].pc = "client"
        /\ tasks[d].posts = 0

\* C15 as stated: a call on a recognized event that misses its data, its
\* idempotency_key or its conversation_id returns a Validation error,
\* dispatches no publish task and creates no dead letter entry.
OrigC15 ==
    \A c \in CallIds :
        (/\ calls[c].pc = "done"
         /\ calls[c].ev.ty = "messaging.message.received"
         /\ (~calls[c].ev.has_data \/ calls[c].ev.key = NoKey \/ calls[c].ev.conv = NoConv))
        => /\ calls[c].result = "Validation"
           /\ tasks[c].pc = "none"
           /\ EntriesOf(c) = {}

\* C15, amended: a call on a recognized event that misses its data or its
\* idempotency_key returns a Validation error.  A call on an event that has
\* an idempotency_key but no conversation_id returns the datastore's error
\* when the idempotency lookup fails, the success acknowledgment when the
\* key is already recorded, and a Validation error otherwise.  In all these
\* cases no publish task is dispatched and no dead letter entry is created
\* for the call.
ThmC15 ==
    \A c \in CallIds :
        (/\ calls[c].pc # "idle"
         /\ calls[c].ev.ty = "messaging.message.received"
         /\ (~calls[c].ev.has_data \/ calls[c].ev.key = NoKey \/ calls[c].ev.conv = NoConv))
        => /\ tasks[c].pc = "none"
           /\ EntriesOf(c) = {}
           /\ calls[c].pc \in {"idem", "done"}
           /\ (~calls[c].ev.has_data \/ calls[c].ev.key = NoKey) =>
                 (calls[c].pc = "done" /\ calls[c].result = "Validation")
           /\ (calls[c].pc = "done" /\ calls[c].ev.has_data /\ calls[c].ev.key # NoKey) =>
                 \/ calls[c].result = "Validation" /\ calls[c].via = "conversation_id"
                 \/ /\ calls[c].result = "OK"
                    /\ calls[c].via = "duplicate"
                    /\ calls[c].ev.key \in idem
                 \/ calls[c].result = "Database" /\ calls[c].via = "idempotency_keys"

\* a call without event data and a call without conversation_id, whose key
\* was not recorded, got the Validation error
WitC15 ==
    \E c, d \in CallIds :
        /\ calls[c].ev.ty = "messaging.message.received"
        /\ ~calls[c].ev.has_data
        /\ calls[c].result = "Validation"
        /\ calls[d].ev.ty = "messaging.message.received"
        /\ calls[d].ev.conv = NoConv /\ calls[d].ev.key # NoKey
        /\ calls[d].result = "Validation"
        /\ calls[d].via = "conversation_id"

\* C16: an event of another type is a no-op success.  The step that takes
\* such an event returns Ok("OK") at once, without a lookup, whether or not
\* the event has data and keys; it dispatches no task and changes nothing but
\* the call itself.
ThmC16 ==
    [][\A c \in CallIds :
          (calls[c].pc = "idle" /\ calls'[c].pc # "idle"
            /\ calls'[c].ev.ty # "messaging.message.received")
          => /\ calls'[c].pc = "done"
             /\ calls'[c].result = "OK"
             /\ calls'[c].via = "ignored"
             /\ \A d \in CallIds \ {c} : calls'[d] = calls[d]
             /\ UNCHANGED <<idem, tasks, dlqVars, timeVars>>]_vars

\* events of another type, one without data and one with data and keys,
\* were acknowledged and no task exists
WitC16 ==
    \E c, d \in CallIds :
        /\ calls[c].pc = "done" /\ calls[c].ev.ty = "other" /\ ~calls[c].ev.has_data
        /\ calls[c].result = "OK"
        /\ calls[d].pc = "done" /\ calls[d].ev.ty = "other" /\ calls[d].ev.has_data
        /\ calls[d].result = "OK"
        /\ \A t \in CallIds : tasks[t].pc = "none"

\* C17 as stated: routing resolution never fails and has no side effect.
\* Whatever the conversation lookup answers, the call does not end in an
\* error: it goes on with the stored agent_id or with the default one, and
\* the lookup changes no collection.
OrigC17 ==
    [][\A c \in CallIds :
          (calls[c].pc = "conv" /\ calls'[c].pc # "conv")
          => /\ calls'[c].result = "OK"
             /\ tasks'[c].agent_id \in {"agent-stored", "agent-bruno"}
             /\ UNCHANGED <<idem, store>>]_vars

\* C18: for each accepted event exactly one agent.message event is built:
\* a call has an outbound event exactly when it accepted its inbound event,
\* different calls have different event ids, the event has the type
\* "agent.message" and the data of the inbound event, and all that the
\* attempts of the call's task have sent so far is this one event (same id,
\* type and data in every attempt).
ThmC18 ==
    \A c \in CallIds :
        /\ (tasks[c].event # NoOutbound) <=> (calls[c].via = "fresh")
        /\ tasks[c].event # NoOutbound =>
              /\ tasks[c].event.ty = "agent.message"
              /\ tasks[c].event.data =
                    [idempotency_key |-> calls[c].ev.key,
                     conversation_id |-> calls[c].ev.conv]
              /\ \A d \in CallIds \ {c} : tasks[d].event.id # tasks[c].event.id
              /\ tasks[c].sent \subseteq {tasks[c].event}
              /\ tasks[c].posts > 0 => tasks[c].sent = {tasks[c].event}

\* two tasks, each after all six attempts, each having sent its own event
WitC18 ==
    /\ \A c \in CallIds : tasks[c].posts = pub_max_retries + 1
                          /\ tasks[c].sent = {tasks[c].event}
    /\ \E c, d \in CallIds : tasks[c].event.id # tasks[d].event.id

\* C20: a failure of the dead letter add on exhaustion is swallowed.  The
\* step in which add fails leaves the store as it was and ends the task with
\* DeliveryFailed after exactly one add; a task that has ended makes no
\* further add and no further attempt.
ThmC20 ==
    [][\A t \in CallIds :
          /\ (tasks[t].pc = "add" /\ tasks'[t] # tasks[t]
                /\ tasks'[t].inserted = tasks[t].inserted)
             => /\ store' = store
                /\ tasks'[t].pc = "done"
                /\ tasks'[t].result = "err_delivery"
                /\ tasks'[t].adds = 1
                /\ tasks'[t].posts = tasks[t].posts
          /\ tasks[t].pc = "done" => tasks'[t] = tasks[t]]_vars

\* a task ended in DeliveryFailed after an add that failed; the store is
\* empty
WitC20 ==
    \E t \in CallIds :
        /\ tasks[t].pc = "done"
        /\ tasks[t].result = "err_delivery"
        /\ tasks[t].adds = 1
        /\ tasks[t].inserted = 0
        /\ tasks[t].posts = pub_max_retries + 1
        /\ store = <<>>

\* ------------------------------------------------------------------------
\* Properties of the bootstrap (SpecBoot)
\* ------------------------------------------------------------------------

\* C19: init_dlq_collection makes at most 10 attempts, failed pings and
\* failed index creations counting against the same 10.  It returns Ok in
\* the step in which create_indexes succeeds after a successful ping; when
\* the 10th attempt fails it returns the error without sleeping and does
\* nothing more; after failed attempt number a (from 0) of the first 9 it
\* sleeps min(100 * 2^a, 5000) ms; and it always returns.
ThmC19 ==
    /\ [](/\ boot.attempt + 1 <= 10
          /\ boot.ping_fails + boot.index_fails <= 10
          /\ boot.sleeps = boot.attempt
          /\ boot.pc \in {"ping", "index", "ok"} =>
                boot.ping_fails + boot.index_fails = boot.attempt
          /\ boot.pc = "sleep" =>
                /\ boot.attempt < 9
                /\ boot.ping_fails + boot.index_fails = boot.attempt + 1
                /\ boot.delay_ms = IF 100 * 2^boot.attempt < 5000
                                   THEN 100 * 2^boot.attempt ELSE 5000
          /\ boot.pc = "fatal" =>
                /\ boot.attempt = 9
                /\ boot.ping_fails + boot.index_fails = 10
                /\ boot.sleeps = 9)
    /\ [][/\ (boot.pc = "index" /\ boot'.pc # "index"
                /\ boot'.index_fails = boot.index_fails) => boot'.pc = "ok"
          /\ boot.pc \in {"ok", "fatal"} => boot' = boot]_vars
    /\ <>(boot.pc \in {"ok", "fatal"})

\* the 10th attempt failed after failures of both kinds and nine sleeps
WitC19 ==
    /\ boot.pc = "fatal"
    /\ boot.ping_fails > 0
    /\ boot.index_fails > 0
    /\ boot.sleeps = 9

\* ------------------------------------------------------------------------
\* Properties of the entry life cycle (SpecRecovery, SpecDLQ, SpecExpiry)
\* ------------------------------------------------------------------------

\* C21 as stated: an entry that the sweeper has moved to Retrying does not
\* stay Retrying forever; without mark_resolved and without expiry it
\* eventually is Resolved, Failed or Pending again.
OrigC21 ==
    \A id \in EntryIds :
        (id \in DOMAIN store /\ store[id].status = "retrying")
        ~> (id \in DOMAIN store /\ store[id].status \in {"resolved", "failed", "pending"})

\* C22 as stated: mark_resolved on an existing entry sets status = Resolved,
\* resolved_at = now and resolved_reason = reason, and Resolved is absorbing:
\* an entry on which a mark_resolved has completed stays Resolved under every
\* later or concurrent retry_pending_messages, add and mark_resolved, for as
\* long as it is stored.
OrigC22 ==
    \A id \in DOMAIN store :
        store[id].resolved_at # NoTime =>
            /\ store[id].status = "resolved"
            /\ store[id].resolved_reason \in ResolveReasons
            /\ store[id].resolved_at <= clock

\* ------------------------------------------------------------------------
\* Properties of the publisher's delays and of concurrent ingestion
\* (SpecPipeline)
\* ------------------------------------------------------------------------

ThmC24 ==
    \A k \in Keys :
        LET early == {c \in CallIds : /\ calls[c].pc # "idle"
                                      /\ Recognized(calls[c].ev)
                                      /\ calls[c].ev.key = k
                                      /\ ~calls[c].late}
            dispatched == {c \in CallIds : tasks[c].pc # "none" /\ calls[c].ev.key = k}
        IN  /\ Cardinality(dispatched) <= Cardinality(early)
            /\ \A c \in dispatched :
                  /\ calls[c].via = "fresh"
                  /\ tasks[c].event.id = c
                  /\ tasks[c].event.data.idempotency_key = k

\* two calls with one key have both passed as fresh, and their two publish
\* sequences are running side by side
WitC24 ==
    \E a, b \in CallIds :
        /\ a # b
        /\ calls[a].ev.key = calls[b].ev.key
        /\ calls[a].ev.key \in Keys
        /\ calls[a].via = "fresh" /\ calls[b].via = "fresh"
        /\ ~calls[a].late /\ ~calls[b].late
        /\ tasks[a].pc \notin {"none", "done"}
        /\ tasks[b].pc \notin {"none", "done"}

\* ------------------------------------------------------------------------
\* Properties of the entries the publisher creates (SpecIngest)
\* ------------------------------------------------------------------------

\* C25: every entry created by the retrying publisher has retry_count =
\* max_retries, so it is created Failed with no next_retry_at; it is never
\* Pending, never in the cursor of a sweep and never claimed by one, and it
\* is Failed until mark_resolved resolves it or expiry deletes it.
ThmC25 ==
    \A id \in DOMAIN store :
        store[id].by # NoTask =>
            /\ store[id].retry_count = store[id].max_retries
            /\ store[id].next_retry_at = NoTime
            /\ store[id].last_retry_at = NoTime
            /\ claimedBy[id] = {}
            /\ \A s \in Sweepers : id \notin sweeps[s].cursor
            /\ store[id].status \in {"failed", "resolved"}
            /\ store[id].status = "failed" <=> store[id].resolved_at = NoTime

\* a sweep has claimed the entry of another caller while the publisher's
\* entry, created before the sweep's find, is still Failed
WitC25 ==
    \E id, other \in DOMAIN store :
        /\ store[id].by # NoTask
        /\ store[id].status = "failed"
        /\ store[other].by = NoTask
        /\ store[other].status = "retrying"
        /\ store[id].created_at < store[other].last_retry_at

\* ------------------------------------------------------------------------
\* Frame of the operations on stored entries (SpecDLQ)
\* ------------------------------------------------------------------------

\* C26: once add has created an entry, no step changes its retry_count,
\* max_retries, created_at, expires_at (created_at + 7 days whatever the
\* status), error, error_type or message; a step of retry_pending_messages
\* changes only status and last_retry_at of the entry it claims, mark_resolved
\* only status, resolved_at and resolved_reason of the entry it names; every
\* other entry is left as it was, and mark_resolved on an id that is not in
\* the store changes nothing.
ThmC26 ==
    [][ LET kept    == (DOMAIN store) \cap (DOMAIN store')
            changed == {id \in kept : store'[id] # store[id]}
        IN  /\ \A id \in DOMAIN store' :
                  store'[id].expires_at = store'[id].created_at + dlq_ttl_days * DayMs
            /\ \A id \in kept :
                  /\ store'[id].retry_count = store[id].retry_count
                  /\ store'[id].max_retries = store[id].max_retries
                  /\ store'[id].created_at = store[id].created_at
                  /\ store'[id].expires_at = store[id].expires_at
                  /\ store'[id].error = store[id].error
                  /\ store'[id].error_type = store[id].error_type
                  /\ store'[id].message = store[id].message
            /\ Cardinality(changed) <= 1
            /\ \A id \in changed :
                  \/ /\ store'[id] = [store[id] EXCEPT !.status = "retrying",
                                                        !.last_retry_at = clock]
                     /\ \E s \in Sweepers :
                           /\ id \in sweeps[s].cursor
                           /\ sweeps'[s].count = sweeps[s].count + 1
                  \/ /\ \E r \in ResolveReasons :
                           store'[id] = [store[id] EXCEPT !.status = "resolved",
                                                         !.resolved_at = clock,
                                                         !.resolved_reason = r]
                     /\ UNCHANGED claimedBy
            /\ \A id \in EntryIds \ DOMAIN store, r \in ResolveReasons :
                  SetResolved(store, id, r, clock) = store
      ]_vars

\* an entry that a sweep claimed and mark_resolved then resolved, with the
\* fields add gave it, while the other id is not in the store
WitC26 ==
    /\ DOMAIN store = {1}
    /\ store[1].status = "resolved"
    /\ store[1].last_retry_at # NoTime
    /\ store[1].retry_count = 0
    /\ store[1].expires_at = store[1].created_at + dlq_ttl_days * DayMs
    /\ store[1].resolved_at > store[1].created_at
    /\ nextId = 1

\* ------------------------------------------------------------------------
\* Consistency of get_statistics (SpecExpiry)
\* ------------------------------------------------------------------------

\* C27 as stated: the DLQStatistics a get_statistics call returns, while add,
\* retry_pending_messages, mark_resolved and cleanup_expired run beside it,
\* is a snapshot of one state of the store, so its pending, failed and
\* retrying counts together are at most its total.
OrigC27 ==
    [][ (stats.pc = "retrying" /\ stats'.pc = "returned") =>
            stats.pending + stats.failed + CountStatus(store, "retrying") <= stats.total
      ]_vars

====
